---- MODULE Spec2Model ----
(***************************************************************************)
(* Model of the Dao ink! contract of pop-api/examples/dao/src/lib.rs:      *)
(* membership (join), proposal creation, stake-weighted voting and         *)
(* proposal execution, together with the token ledger and the block height *)
(* the contract reads from its environment.                                *)
(*                                                                         *)
(* Integer types are modelled with their saturating arithmetic at a        *)
(* reduced width: U32Max stands for u32::MAX of the proposal counter,      *)
(* BlockNumberMax for the maximum of BlockNumber and BalanceMax for the    *)
(* maximum of Balance.                                                     *)
(*                                                                         *)
(* Every message is declared #[ink(message)] and returns Result<(), Error>;*)
(* the contract is written against ink! 5 (ink::scale_derive), whose       *)
(* dispatcher sets the REVERT flag when a message returns Err, so that     *)
(* every storage write and event of that call is rolled back.  The model   *)
(* keeps the writes the handler performs before it returns Err and passes  *)
(* them through StorageOnErr, which models that rollback.                  *)
(***************************************************************************)
EXTENDS Integers, Sequences, FiniteSets, TLC

\* ------------------------------------------------------------------ bounds
U32Max == 2
BalanceMax == 3
VotingPeriod == 1

\* The chain is followed until one block past the window of a proposal
\* created at height 1; BlockNumber saturates there.
BlockNumberMax == VotingPeriod + 2

\* The history counters stop one past the width they are compared with.
MaxJoined == 2 * BalanceMax
MaxCreated == U32Max + 1

\* u8::MAX, the bound of the description length (lib.rs:211)
U8Max == 255

\* ------------------------------------------------------------------ inputs
Accounts == {"alice", "bob"}
Contract == "dao"
Holders == Accounts \cup {Contract}
TOKEN == 1

\* Vec<u8>: the descriptions tried are runs of one byte, kept as the length of
\* the run and the byte; Vec::new(), Vec::len() and Vec::append() on them.
Bytes(n, b) == [len |-> n, fill |-> b]
VecNew == Bytes(0, 0)
VecLen(v) == v.len
VecAppend(v, w) == IF v.len = 0 THEN w ELSE IF w.len = 0 THEN v
                   ELSE Bytes(v.len + w.len, v.fill)

\* The create_proposal requests tried: one with the longest accepted
\* description and one with a description of u8::MAX bytes.
ProposalRequests ==
    {[beneficiary |-> "alice", amount |-> BalanceMax - 1, description |-> Bytes(U8Max - 1, 7)],
     [beneficiary |-> "bob", amount |-> 1, description |-> Bytes(U8Max, 7)]}
ProposalIds == 1..U32Max

\* Option<T>: None is the empty sequence, Some(x) the one-element sequence.
None == << >>
Some(x) == <<x>>
IsNone(o) == Len(o) = 0
Unwrap(o) == o[1]

\* Faulty variant: the addition wraps around at the width.
WrappingAdd(a, b, max) == (a + b) % (max + 1)

\* u32 / u128 saturating_add at the modelled width
SaturatingAdd(a, b, max) == IF a + b > max THEN max ELSE a + b

\* Mapping::get / Mapping::insert of ink::storage::Mapping
MapGet(m, k) == IF k \in DOMAIN m THEN Some(m[k]) ELSE None
MapInsert(m, k, v) == [x \in DOMAIN m \cup {k} |-> IF x = k THEN v ELSE m[x]]

VARIABLES
    proposals,          \* Mapping<u32, Proposal>
    members,            \* Mapping<AccountId, Member>
    last_votes,         \* Mapping<AccountId, BlockNumber>
    voting_period,      \* BlockNumber
    token_id,           \* TokenId
    proposals_created,  \* u32
    block_number,       \* the environment's block height
    balance,            \* the ledger: balance of the Dao token per holder
    ballots,            \* history: <<account, id>> voted on the proposal stored at id
    joined,             \* history: exact sum of the amounts of successful joins
    created,            \* history: number of successful create_proposal calls
    executions,         \* history: per id, successful executions of the stored proposal
    paid,               \* history: per id, payouts credited to its beneficiary
    weights             \* history: voting power of each ballot when it was cast

storage == <<proposals, members, last_votes, voting_period, token_id, proposals_created>>
history == <<ballots, joined, created, executions, paid, weights>>
vars == <<proposals, members, last_votes, voting_period, token_id, proposals_created,
          block_number, balance, ballots, joined, created, executions, paid,
          weights>>

InitialBalance == [h \in Holders |->
                     IF h = "alice" THEN BalanceMax - 1 ELSE IF h = "bob" THEN 1 ELSE 0]

\* The join amounts tried by a caller: nothing, or the whole of what was minted
\* to it (a second such join needs the tokens a payout brought back).
JoinAmounts(caller) == {0, InitialBalance[caller]}

\* Dao::new, with the token created and the test accounts minted
Init ==
    /\ proposals = << >>
    /\ members = << >>
    /\ last_votes = << >>
    /\ voting_period = VotingPeriod
    /\ token_id = TOKEN
    /\ proposals_created = 0
    /\ block_number = 0
    /\ balance = InitialBalance
    /\ ballots = {}
    /\ weights = [b \in Accounts \X ProposalIds |-> 0]
    /\ joined = [a \in Accounts |-> 0]
    /\ created = 0
    /\ executions = [i \in ProposalIds |-> 0]
    /\ paid = [i \in ProposalIds |-> 0]

\* ---------------------------------------------------------- the ledger
\* pop_api::v0::fungibles of the Dao token: a transfer debits `from` and
\* credits `to`; it fails when `from` lacks the funds or `to` would overflow.
LedgerCanTransfer(bal, from, to, value) ==
    /\ bal[from] >= value
    /\ (from # to => bal[to] + value <= BalanceMax)

LedgerTransfer(bal, from, to, value) ==
    IF from = to THEN bal
    ELSE [bal EXCEPT ![from] = @ - value, ![to] = @ + value]

\* api::balance_of(token, owner)
BalanceOf(bal, owner) == bal[owner]

\* ---------------------------------------------------------- the contract
\* The state a message works on: the contract's storage, the ledger it
\* calls into and the events emitted so far by the running call.  A message
\* is a function from this state to its return value `ret` and the state `s`
\* it leaves.
Current == [proposals |-> proposals, members |-> members, last_votes |-> last_votes,
            proposals_created |-> proposals_created, balance |-> balance,
            events |-> << >>]

\* Faulty variant: the writes made before the message returned Err are kept.
StorageOnErrKept(before, after) == after

\* What is left of a call's writes when the message returns Err: ink! returns
\* with the REVERT flag and the host rolls the call back.
StorageOnErr(before, after) == before

\* Faulty variant: the window ends where it starts.
VoteEndAtStart(now, period) == now

\* current_block.saturating_add(voting_period)
VoteEnd(now, period) == SaturatingAdd(now, period, BlockNumberMax)

\* impl Default for Proposal, read at block `now`
ProposalDefault(now) ==
    [description |-> VecNew,
     status |-> "Submitted",
     proposal_id |-> 0,
     votes_infos |-> Some([vote_start |-> now,
                           vote_end |-> VoteEnd(now, voting_period),
                           yes_votes |-> 0,
                           no_votes |-> 0]),
     transaction_infos |-> None]

\* self.proposals_created.saturating_add(1)
NextProposalId(counter) == SaturatingAdd(counter, 1, U32Max)

\* Faulty variant: a description of exactly u8::MAX bytes passes.
DescriptionOverLong(description) == VecLen(description) > U8Max

\* description.len() >= u8::MAX.into()
DescriptionTooLong(description) == VecLen(description) >= U8Max

\* Dao::create_proposal
create_proposal(s, caller, beneficiary, amount, description) ==
    LET s1 == [s EXCEPT !.proposals_created = NextProposalId(@)] IN
    IF DescriptionTooLong(description)
    THEN [ret |-> "ExceedeMaxDescriptionLength", s |-> s1]
    ELSE
      LET proposal == [ProposalDefault(block_number) EXCEPT
                          !.proposal_id = s1.proposals_created,
                          !.description = VecAppend(@, description),
                          !.transaction_infos =
                              Some([beneficiary |-> beneficiary, amount |-> amount])]
          s2 == [s1 EXCEPT
                    !.proposals = MapInsert(@, proposal.proposal_id, proposal),
                    !.events = Append(@, [type |-> "Created",
                                          id |-> proposal.proposal_id,
                                          creator |-> caller,
                                          admin |-> Contract])]
      IN [ret |-> "Ok", s |-> s2]

\* Faulty variant: join stores a new Member record over the old one.
JoinedMemberAnew(member, amount) == [voting_power |-> amount, last_vote |-> 0]

\* Faulty variant: join starts the member's vote marker afresh.
JoinedMemberResetsVote(member, amount) ==
    [voting_power |-> SaturatingAdd(member.voting_power, amount, BalanceMax),
     last_vote |-> 0]

\* The Member record Dao::join stores
JoinedMember(member, amount) ==
    [voting_power |-> SaturatingAdd(member.voting_power, amount, BalanceMax),
     last_vote |-> member.last_vote]

\* Faulty variant: the result of the stake transfer is dropped, the way
\* execute_proposal drops the result of its runtime call.
joinUnchecked(s, caller, amount, permitted) ==
    LET s1 == [s EXCEPT !.balance =
                  IF permitted /\ LedgerCanTransfer(s.balance, caller, Contract, amount)
                  THEN LedgerTransfer(@, caller, Contract, amount)
                  ELSE @]
        got == MapGet(s1.members, caller)
        member == IF IsNone(got) THEN [voting_power |-> 0, last_vote |-> 0]
                  ELSE Unwrap(got)
        s2 == [s1 EXCEPT
                  !.members = MapInsert(@, caller, JoinedMember(member, amount)),
                  !.events = Append(@, [type |-> "Transfer", from |-> caller,
                                        to |-> Contract, value |-> amount])]
    IN [ret |-> "Ok", s |-> s2]

\* Dao::join; `permitted` is the ledger's own verdict (allowance, frozen account)
join(s, caller, amount, permitted) ==
    IF ~(permitted /\ LedgerCanTransfer(s.balance, caller, Contract, amount))
    THEN [ret |-> "Psp22", s |-> s]
    ELSE
      LET s1 == [s EXCEPT !.balance = LedgerTransfer(@, caller, Contract, amount)]
          got == MapGet(s1.members, caller)
          member == IF IsNone(got) THEN [voting_power |-> 0, last_vote |-> 0]
                    ELSE Unwrap(got)
          s2 == [s1 EXCEPT
                    !.members = MapInsert(@, caller, JoinedMember(member, amount)),
                    !.events = Append(@, [type |-> "Transfer", from |-> caller,
                                          to |-> Contract, value |-> amount])]
      IN [ret |-> "Ok", s |-> s2]

\* The lazy finalization of Dao::vote, made on the handler's copy of the proposal
Finalized(proposal, votes_infos) ==
    IF proposal.status = "Submitted"
    THEN IF votes_infos.yes_votes > votes_infos.no_votes
         THEN [proposal EXCEPT !.status = "Approved"]
         ELSE [proposal EXCEPT !.status = "Rejected"]
    ELSE proposal

\* Faulty variant: the window stays open one block longer.
VotingEndedLate(now, votes_infos) == now > votes_infos.vote_end + 1

\* current_block > votes_infos.vote_end
VotingEnded(now, votes_infos) == now > votes_infos.vote_end

\* Faulty variant: a vote cast at the very height of the start does not count.
HasVotedAfterStart(member, votes_infos) ==
    member.last_vote > votes_infos.vote_start

\* member.last_vote >= votes_infos.vote_start
HasVoted(member, votes_infos) == member.last_vote >= votes_infos.vote_start

\* Faulty variant: a caller without a Member record votes as an empty member,
\* the way join and get_member read the members map.
VoterOrDefault(ms, caller) ==
    IF caller \in DOMAIN ms THEN Some(ms[caller])
    ELSE Some([voting_power |-> 0, last_vote |-> 0])

\* self.members.get(caller), None making the vote fail with MemberNotFound
Voter(ms, caller) == MapGet(ms, caller)

\* Faulty variant: the voting power is counted on both sides of the tally.
CountedOnBothSides(votes_infos, member, approve) ==
    [votes_infos EXCEPT
        !.yes_votes = SaturatingAdd(@, member.voting_power, BalanceMax),
        !.no_votes = SaturatingAdd(@, member.voting_power, BalanceMax)]

\* Faulty variant: every vote weighs one, whatever the member's voting power.
CountedPerHead(votes_infos, member, approve) ==
    IF approve
    THEN [votes_infos EXCEPT !.yes_votes = SaturatingAdd(@, 1, BalanceMax)]
    ELSE [votes_infos EXCEPT !.no_votes = SaturatingAdd(@, 1, BalanceMax)]

\* The tally after the member's vote: voting_power is added to yes_votes when
\* approve is true and to no_votes otherwise, saturating.
Counted(votes_infos, member, approve) ==
    IF approve
    THEN [votes_infos EXCEPT !.yes_votes =
             SaturatingAdd(@, member.voting_power, BalanceMax)]
    ELSE [votes_infos EXCEPT !.no_votes =
             SaturatingAdd(@, member.voting_power, BalanceMax)]

\* Faulty variant: the event does not name the voter.
VotedEventUnsigned(caller, now) ==
    [type |-> "Voted", who |-> None, when |-> Some(now)]

\* Voted { who: Some(caller), when: Some(current_block) }
VotedEvent(caller, now) ==
    [type |-> "Voted", who |-> Some(caller), when |-> Some(now)]

\* Dao::vote
vote(s, caller, proposal_id, approve) ==
    LET got == MapGet(s.proposals, proposal_id) IN
    IF IsNone(got) THEN [ret |-> "ProposalNotFound", s |-> s] ELSE
    LET proposal == Unwrap(got) IN
    IF IsNone(proposal.votes_infos) THEN [ret |-> "WrongContract", s |-> s] ELSE
    LET votes_infos == Unwrap(proposal.votes_infos) IN
    IF VotingEnded(block_number, votes_infos)
    THEN \* the finalized copy is never written back with proposals.insert
         LET dropped == Finalized(proposal, votes_infos) IN
         [ret |-> "VotingPeriodEnded", s |-> s]
    ELSE
    LET found == Voter(s.members, caller) IN
    IF IsNone(found) THEN [ret |-> "MemberNotFound", s |-> s] ELSE
    LET member == Unwrap(found) IN
    IF HasVoted(member, votes_infos)
    THEN [ret |-> "AlreadyVoted", s |-> s]
    ELSE
    LET counted == Counted(votes_infos, member, approve)
        updated == [proposal EXCEPT !.votes_infos = Some(counted)]
        s1 == [s EXCEPT
                  !.proposals = MapInsert(@, proposal_id, updated),
                  !.members = MapInsert(@, caller,
                                  [voting_power |-> member.voting_power,
                                   last_vote |-> block_number]),
                  !.last_votes = MapInsert(@, caller, block_number),
                  !.events = Append(@, VotedEvent(caller, block_number))]
    IN [ret |-> "Ok", s |-> s1]

\* The call_runtime of Dao::execute_proposal: Fungibles::TransferFrom from the
\* contract to the beneficiary; `runtime_ok` is the runtime's own verdict.
\* A failed runtime call changes nothing.
CallRuntimeTransfer(bal, to, value, runtime_ok) ==
    IF runtime_ok /\ LedgerCanTransfer(bal, Contract, to, value)
    THEN LedgerTransfer(bal, Contract, to, value)
    ELSE bal

\* Faulty variant: execution is open at the last height of the window.
VotingNotEndedBeforeEnd(now, votes_infos) == now < votes_infos.vote_end

\* self.env().block_number() <= votes_infos.vote_end
VotingNotEnded(now, votes_infos) == now <= votes_infos.vote_end

\* Faulty variant: the check for an executed proposal is left out.
AlreadyExecutedUnchecked(proposal) == FALSE

\* proposal.status == ProposalStatus::Executed
AlreadyExecuted(proposal) == proposal.status = "Executed"

\* Faulty variant: the tally is not looked at.
ApprovingAlways(votes_infos) == TRUE

\* Faulty variant: a tie approves.
ApprovingOnTie(votes_infos) == votes_infos.yes_votes >= votes_infos.no_votes

\* votes_infos.yes_votes > votes_infos.no_votes
Approving(votes_infos) == votes_infos.yes_votes > votes_infos.no_votes

\* Faulty variant: a treasury that just covers the payout is enough.
FundsCover(treasury, amount) == treasury >= amount

\* Ok(val) if val > transaction_infos.amount
FundsAvailable(treasury, amount) == treasury > amount

\* Faulty variant: the payout is taken out of the executed proposal.
ExecutedProposalSpent(proposal) ==
    [proposal EXCEPT !.status = "Executed", !.transaction_infos = None]

\* proposal.status = ProposalStatus::Executed
ExecutedProposal(proposal) == [proposal EXCEPT !.status = "Executed"]

\* Dao::execute_proposal
execute_proposal(s, proposal_id, runtime_ok) ==
    LET got == MapGet(s.proposals, proposal_id) IN
    IF IsNone(got) THEN [ret |-> "ProposalNotFound", s |-> s] ELSE
    LET proposal == Unwrap(got) IN
    IF IsNone(proposal.votes_infos) THEN [ret |-> "WrongContract", s |-> s] ELSE
    LET votes_infos == Unwrap(proposal.votes_infos) IN
    IF IsNone(proposal.transaction_infos) THEN [ret |-> "WrongContract", s |-> s] ELSE
    LET transaction_infos == Unwrap(proposal.transaction_infos) IN
    IF VotingNotEnded(block_number, votes_infos)
    THEN [ret |-> "VotingPeriodNotEnded", s |-> s]
    ELSE
    IF AlreadyExecuted(proposal)
    THEN [ret |-> "ProposalExecuted", s |-> s]
    ELSE
    IF Approving(votes_infos)
    THEN
      IF ~FundsAvailable(BalanceOf(s.balance, Contract), transaction_infos.amount)
      THEN [ret |-> "NotEnoughFundsAvailable", s |-> s]
      ELSE
        \* let _ = call_runtime(..): the result of the transfer is discarded
        LET s1 == [s EXCEPT !.balance =
                      CallRuntimeTransfer(@, transaction_infos.beneficiary,
                                          transaction_infos.amount, runtime_ok)]
            s2 == [s1 EXCEPT
                      !.events = @ \o
                          <<[type |-> "Transfer", from |-> Contract,
                             to |-> transaction_infos.beneficiary,
                             value |-> transaction_infos.amount],
                            [type |-> "Approval", owner |-> Contract,
                             spender |-> Contract,
                             value |-> transaction_infos.amount]>>,
                      !.proposals = MapInsert(@, proposal_id,
                                       ExecutedProposal(proposal))]
        IN [ret |-> "Ok", s |-> s2]
    ELSE [ret |-> "ProposalRejected", s |-> s]

\* Dao::get_proposal and Dao::get_member
get_proposal(proposal_id) == MapGet(proposals, proposal_id)
get_member(account) ==
    IF account \in DOMAIN members THEN members[account]
    ELSE [voting_power |-> 0, last_vote |-> 0]

\* The ink! dispatcher: the call's writes are kept when the message returns
\* Ok, and rolled back when it returns Err.
Kept(out) == IF out.ret = "Ok" THEN out.s ELSE StorageOnErr(Current, out.s)

Dispatch(out) ==
    /\ proposals' = Kept(out).proposals
    /\ members' = Kept(out).members
    /\ last_votes' = Kept(out).last_votes
    /\ proposals_created' = Kept(out).proposals_created
    /\ balance' = Kept(out).balance
    /\ UNCHANGED <<voting_period, token_id, block_number>>

CreateProposalStep(caller, r) ==
    LET out == create_proposal(Current, caller, r.beneficiary, r.amount, r.description) IN
    /\ created < MaxCreated
    /\ Dispatch(out)
    /\ created' = IF out.ret = "Ok" THEN created + 1 ELSE created
    /\ ballots' = IF out.ret = "Ok"
                  THEN {b \in ballots : b[2] # out.s.proposals_created}
                  ELSE ballots
    /\ weights' = IF out.ret = "Ok"
                  THEN [b \in Accounts \X ProposalIds |->
                           IF b[2] = out.s.proposals_created THEN 0 ELSE weights[b]]
                  ELSE weights
    /\ executions' = IF out.ret = "Ok"
                     THEN [executions EXCEPT ![out.s.proposals_created] = 0]
                     ELSE executions
    /\ paid' = IF out.ret = "Ok"
               THEN [paid EXCEPT ![out.s.proposals_created] = 0]
               ELSE paid
    /\ UNCHANGED joined

CreateProposal ==
    \E caller \in Accounts, r \in ProposalRequests : CreateProposalStep(caller, r)

JoinStep(caller, amount, permitted) ==
    LET out == join(Current, caller, amount, permitted) IN
    /\ joined[caller] + amount <= MaxJoined
    /\ Dispatch(out)
    /\ joined' = IF out.ret = "Ok"
                 THEN [joined EXCEPT ![caller] = @ + amount]
                 ELSE joined
    /\ UNCHANGED <<ballots, created, executions, paid, weights>>

Join ==
    \E caller \in Accounts : \E amount \in JoinAmounts(caller), permitted \in BOOLEAN :
        JoinStep(caller, amount, permitted)

VoteStep(caller, proposal_id, approve) ==
    LET out == vote(Current, caller, proposal_id, approve) IN
    /\ Dispatch(out)
    /\ ballots' = IF out.ret = "Ok"
                  THEN ballots \cup {<<caller, proposal_id>>}
                  ELSE ballots
    /\ weights' = IF out.ret = "Ok"
                  THEN [weights EXCEPT ![<<caller, proposal_id>>] =
                           members[caller].voting_power]
                  ELSE weights
    /\ UNCHANGED <<joined, created, executions, paid>>

Vote ==
    \E caller \in Accounts, proposal_id \in ProposalIds, approve \in BOOLEAN :
        VoteStep(caller, proposal_id, approve)

ExecuteProposalStep(proposal_id, runtime_ok) ==
    LET out == execute_proposal(Current, proposal_id, runtime_ok) IN
    /\ Dispatch(out)
    /\ executions' = IF out.ret = "Ok"
                     THEN [executions EXCEPT ![proposal_id] = @ + 1]
                     ELSE executions
    /\ paid' = IF out.ret = "Ok" /\ out.s.balance # balance
               THEN [paid EXCEPT ![proposal_id] = @ + 1]
               ELSE paid
    /\ UNCHANGED <<ballots, joined, created, weights>>

ExecuteProposal ==
    \E proposal_id \in ProposalIds, runtime_ok \in BOOLEAN :
        ExecuteProposalStep(proposal_id, runtime_ok)

\* The host produces the next block.
AdvanceBlock ==
    /\ block_number < BlockNumberMax
    /\ block_number' = block_number + 1
    /\ UNCHANGED <<storage, balance, history>>

Next ==
    \/ AdvanceBlock
    \/ Join
    \/ CreateProposal
    \/ Vote
    \/ ExecuteProposal

Spec == Init /\ [][Next]_vars

\* ------------------------------------------------------------------ properties
Stored == DOMAIN proposals
Votes(id) == Unwrap(proposals[id].votes_infos)
Payout(id) == Unwrap(proposals[id].transaction_infos)
AcceptedRequests == {r \in ProposalRequests : VecLen(r.description) < U8Max}
RejectedRequests == {r \in ProposalRequests : VecLen(r.description) >= U8Max}

\* C1: an account that has voted successfully on a stored proposal cannot vote
\* on it again: while the window is open (height <= vote_end) the vote returns
\* AlreadyVoted, it never returns Ok, and the proposal's tally is left as it was,
\* whatever joins and votes on other proposals came in between.
C1_OneVotePerProposal ==
    \A a \in Accounts, id \in Stored, approve \in BOOLEAN :
        <<a, id>> \in ballots =>
            LET out == vote(Current, a, id, approve) IN
            /\ out.ret # "Ok"
            /\ (block_number <= Votes(id).vote_end => out.ret = "AlreadyVoted")
            /\ Kept(out).proposals[id].votes_infos = proposals[id].votes_infos

\* An account has voted on one proposal and later on another, and votes again
\* on the first while its window is still open.
C1_Witness ==
    \E a \in Accounts, id \in Stored, other \in Stored :
        /\ id # other
        /\ <<a, id>> \in ballots
        /\ <<a, other>> \in ballots
        /\ members[a].last_vote > Votes(id).vote_start
        /\ block_number <= Votes(id).vote_end
        /\ vote(Current, a, id, TRUE).ret = "AlreadyVoted"

\* C2: a vote on a stored proposal after its window (height > vote_end) returns
\* VotingPeriodEnded and leaves a proposal that was Submitted stored as Approved
\* when yes > no and as Rejected otherwise.
C2_LazyFinalization ==
    \A a \in Accounts, id \in Stored, approve \in BOOLEAN :
        block_number > Votes(id).vote_end =>
            LET out == vote(Current, a, id, approve) IN
            /\ out.ret = "VotingPeriodEnded"
            /\ (proposals[id].status = "Submitted" =>
                   Kept(out).proposals[id].status =
                       IF Votes(id).yes_votes > Votes(id).no_votes
                       THEN "Approved" ELSE "Rejected")

\* C3: when the payout transfer of execute_proposal fails, the call returns an
\* error, the status does not become Executed and no Transfer event is emitted;
\* a proposal stored as Executed has had its payout credited.
C3_FailedPayoutNotExecuted ==
    /\ \A id \in Stored : proposals[id].status = "Executed" => paid[id] = 1
    /\ \A id \in Stored :
           LET out == execute_proposal(Current, id, FALSE) IN
           /\ out.ret # "Ok"
           /\ Kept(out).proposals[id].status = proposals[id].status
           /\ \A i \in 1..Len(Kept(out).events) : Kept(out).events[i].type # "Transfer"

\* C4: execute_proposal on a stored proposal returns Ok exactly when the height
\* is past vote_end, the status is not Executed, yes > no and the treasury
\* holds strictly more than the payout amount; a treasury that does not returns
\* NotEnoughFundsAvailable; on Ok the stored status is Executed.
C4_ExecuteIff ==
    \A id \in Stored, runtime_ok \in BOOLEAN :
        LET out == execute_proposal(Current, id, runtime_ok)
            ready == /\ block_number > Votes(id).vote_end
                     /\ proposals[id].status # "Executed"
                     /\ Votes(id).yes_votes > Votes(id).no_votes
        IN /\ (out.ret = "Ok") <=> (ready /\ balance[Contract] > Payout(id).amount)
           /\ (ready /\ balance[Contract] <= Payout(id).amount =>
                  out.ret = "NotEnoughFundsAvailable")
           /\ (out.ret = "Ok" => Kept(out).proposals[id].status = "Executed")

\* One proposal has been executed and another, approved and past its window,
\* asks for more than the treasury has left.
C4_Witness ==
    \E id \in Stored, other \in Stored :
        /\ executions[id] = 1
        /\ proposals[id].status = "Executed"
        /\ block_number > Votes(other).vote_end
        /\ proposals[other].status # "Executed"
        /\ Votes(other).yes_votes > Votes(other).no_votes
        /\ balance[Contract] <= Payout(other).amount
        /\ execute_proposal(Current, other, TRUE).ret = "NotEnoughFundsAvailable"

\* C5: a stored proposal is executed at most once and, once executed, stays
\* stored as Executed; execute_proposal on it returns ProposalExecuted and moves
\* no funds, so its payout is credited at most once.
C5_ExecutesOnce ==
    \A id \in Stored :
        /\ executions[id] <= 1
        /\ paid[id] <= executions[id]
        /\ (executions[id] >= 1 => proposals[id].status = "Executed")
        /\ (proposals[id].status = "Executed" =>
               \A runtime_ok \in BOOLEAN :
                   LET out == execute_proposal(Current, id, runtime_ok) IN
                   /\ out.ret = "ProposalExecuted"
                   /\ Kept(out).balance = balance
                   /\ Kept(out).proposals = proposals)

\* A proposal was executed and paid out, and its beneficiary has since joined
\* again with the payout.
C5_Witness ==
    \E id \in Stored :
        /\ executions[id] = 1
        /\ paid[id] = 1
        /\ joined[Payout(id).beneficiary] > InitialBalance[Payout(id).beneficiary]
        /\ execute_proposal(Current, id, TRUE).ret = "ProposalExecuted"

\* C6: the stored voting_power of every account is the sum of the amounts of
\* its successful joins, capped at the Balance maximum; join never lowers it
\* and vote, create_proposal and execute_proposal leave it as it is.
C6_VotingPowerIsStake ==
    /\ \A a \in Accounts :
           get_member(a).voting_power =
               IF joined[a] > BalanceMax THEN BalanceMax ELSE joined[a]
    /\ \A a \in Accounts : \A amount \in JoinAmounts(a), permitted \in BOOLEAN :
           LET after == Kept(join(Current, a, amount, permitted)) IN
           \A m \in DOMAIN members :
               after.members[m].voting_power >= members[m].voting_power
    /\ \A a \in Accounts, id \in ProposalIds, approve \in BOOLEAN :
           LET after == Kept(vote(Current, a, id, approve)) IN
           /\ DOMAIN after.members = DOMAIN members
           /\ \A m \in DOMAIN members :
                  after.members[m].voting_power = members[m].voting_power
    /\ \A a \in Accounts, r \in ProposalRequests :
           Kept(create_proposal(Current, a, r.beneficiary, r.amount,
                                r.description)).members = members
    /\ \A id \in ProposalIds, runtime_ok \in BOOLEAN :
           Kept(execute_proposal(Current, id, runtime_ok)).members = members

\* An account has staked more in total than a Balance holds.
C6_Witness ==
    \E a \in Accounts :
        /\ joined[a] > BalanceMax
        /\ members[a].voting_power = BalanceMax

\* C7: the k-th successful create_proposal assigns id k-1, the first one id 0:
\* the Created event carries that id and get_proposal of it returns the proposal.
C7_IdsCountFromZero ==
    \A a \in Accounts, r \in AcceptedRequests :
        LET out == create_proposal(Current, a, r.beneficiary, r.amount, r.description)
        IN out.ret = "Ok" =>
             /\ Kept(out).events[1].type = "Created"
             /\ Kept(out).events[1].id = created
             /\ ~IsNone(MapGet(Kept(out).proposals, created))

\* C8: right after a successful create_proposal(beneficiary, amount,
\* description) at height h, get_proposal of the id the Created event carries
\* returns status Submitted, a zero tally, the window from h to h + voting_period
\* (capped at the BlockNumber maximum), the description and the payout.
C8_CreateRoundTrip ==
    \A a \in Accounts, r \in AcceptedRequests :
        LET out == create_proposal(Current, a, r.beneficiary, r.amount, r.description)
            id == Kept(out).events[1].id
        IN /\ out.ret = "Ok"
           /\ MapGet(Kept(out).proposals, id) =
                Some([description |-> r.description,
                      status |-> "Submitted",
                      proposal_id |-> id,
                      votes_infos |->
                          Some([vote_start |-> block_number,
                                vote_end |->
                                    IF block_number + voting_period > BlockNumberMax
                                    THEN BlockNumberMax
                                    ELSE block_number + voting_period,
                                yes_votes |-> 0,
                                no_votes |-> 0]),
                      transaction_infos |->
                          Some([beneficiary |-> r.beneficiary, amount |-> r.amount])])

\* A proposal has just been created, at a height where the window end saturates.
C8_Witness ==
    \E id \in Stored :
        /\ created >= 1
        /\ id = proposals_created
        /\ Votes(id).vote_start = block_number
        /\ block_number + voting_period > BlockNumberMax
        /\ Votes(id).vote_end = BlockNumberMax
        /\ Votes(id).yes_votes = 0 /\ Votes(id).no_votes = 0
        /\ proposals[id].status = "Submitted"

\* C9: every successful create_proposal is assigned an id of its own and never
\* overwrites a stored proposal, also once the counter has reached its maximum.
C9_UniqueIds ==
    /\ Cardinality(Stored) = created
    /\ \A a \in Accounts, r \in AcceptedRequests :
           LET out == create_proposal(Current, a, r.beneficiary, r.amount, r.description)
           IN out.ret = "Ok" => out.s.proposals_created \notin Stored

\* C10: a create_proposal rejected for its description length commits nothing:
\* the counter and the proposal store are as before, and the next successful
\* create_proposal gets the id it would have got without the rejected call.
C10_RejectedCreateCommitsNothing ==
    \A a \in Accounts, r \in RejectedRequests :
        LET out == create_proposal(Current, a, r.beneficiary, r.amount, r.description)
            after == Kept(out)
        IN /\ out.ret = "ExceedeMaxDescriptionLength"
           /\ after.proposals_created = proposals_created
           /\ after.proposals = proposals
           /\ \A b \in Accounts, q \in AcceptedRequests :
                  create_proposal(after, b, q.beneficiary, q.amount,
                                  q.description).s.proposals_created
                  = create_proposal(Current, b, q.beneficiary, q.amount,
                                    q.description).s.proposals_created

\* Proposals exist, the counter can still grow, and the handler has advanced
\* its counter by the time it rejects the description.
C10_Witness ==
    \E a \in Accounts, r \in RejectedRequests :
        LET out == create_proposal(Current, a, r.beneficiary, r.amount, r.description)
        IN /\ created >= 1
           /\ out.ret = "ExceedeMaxDescriptionLength"
           /\ out.s.proposals_created = proposals_created + 1
           /\ Kept(out).proposals_created = proposals_created

C12_TiesReject ==
    \A id \in Stored :
        Votes(id).yes_votes <= Votes(id).no_votes =>
            /\ proposals[id].status # "Executed"
            /\ executions[id] = 0
            /\ block_number > Votes(id).vote_end =>
                   \A runtime_ok \in BOOLEAN :
                       LET out == execute_proposal(Current, id, runtime_ok) IN
                       /\ out.ret = "ProposalRejected"
                       /\ Kept(out).balance = balance
                       /\ Kept(out).proposals = proposals
                       /\ Kept(out).events = << >>

\* Two closed proposals, one that nobody voted on and one with more no than yes,
\* while the treasury could pay either.
C12_Witness ==
    \E id \in Stored, other \in Stored :
        /\ block_number > Votes(id).vote_end
        /\ block_number > Votes(other).vote_end
        /\ Votes(id).yes_votes = 0 /\ Votes(id).no_votes = 0
        /\ Votes(other).yes_votes < Votes(other).no_votes
        /\ balance[Contract] > Payout(id).amount
        /\ execute_proposal(Current, id, TRUE).ret = "ProposalRejected"
        /\ execute_proposal(Current, other, TRUE).ret = "ProposalRejected"

\* C13: create_proposal succeeds for any caller, member or not, exactly when
\* the description is shorter than 255 bytes: 254 bytes are accepted, 255 are
\* rejected with ExceedeMaxDescriptionLength.
C13_CreateNotGated ==
    \A a \in Accounts, r \in ProposalRequests :
        LET out == create_proposal(Current, a, r.beneficiary, r.amount, r.description)
        IN /\ (out.ret = "Ok") <=> (VecLen(r.description) < 255)
           /\ (out.ret # "Ok") <=> (out.ret = "ExceedeMaxDescriptionLength")
           /\ (VecLen(r.description) = 254 => out.ret = "Ok")
           /\ (VecLen(r.description) = 255 =>
                  out.ret = "ExceedeMaxDescriptionLength")

\* A proposal was created while no account had a Member record.
C13_Witness ==
    /\ DOMAIN members = {}
    /\ created >= 1
    /\ Stored # {}
    /\ \E r \in ProposalRequests : VecLen(r.description) = 254
    /\ \E r \in ProposalRequests : VecLen(r.description) = 255

\* C14: a vote that returns Ok emits exactly one event, Voted with the caller as
\* who and the current block height as when; a vote that returns an error emits
\* no event.
C14_VotedEvent ==
    \A a \in Accounts, id \in ProposalIds, approve \in BOOLEAN :
        LET out == vote(Current, a, id, approve) IN
        Kept(out).events =
            IF out.ret = "Ok"
            THEN << [type |-> "Voted", who |-> <<a>>, when |-> <<block_number>>] >>
            ELSE << >>

\* After an earlier successful vote, at a later height, one member can vote on
\* a proposal and another is turned away.
C14_Witness ==
    \E a \in Accounts, b \in Accounts, id \in Stored :
        /\ ballots # {}
        /\ block_number > 1
        /\ vote(Current, a, id, TRUE).ret = "Ok"
        /\ vote(Current, b, id, TRUE).ret \notin {"Ok", "ProposalNotFound"}

\* C15: once the block height is past a stored proposal's vote_end, every vote
\* on it returns VotingPeriodEnded, whoever the caller is, and neither a vote
\* nor a join nor an execute_proposal changes its tally, so the yes > no that
\* execute_proposal compares is the tally at the close of the window.
C15_TallyFixedAtClose ==
    \A id \in Stored :
        block_number > Votes(id).vote_end =>
            /\ \A a \in Accounts, on \in ProposalIds, approve \in BOOLEAN :
                   LET out == vote(Current, a, on, approve) IN
                   /\ on = id => out.ret = "VotingPeriodEnded"
                   /\ Kept(out).proposals[id].votes_infos = proposals[id].votes_infos
            /\ \A a \in Accounts : \A amount \in JoinAmounts(a), permitted \in BOOLEAN :
                   Kept(join(Current, a, amount, permitted)).proposals[id].votes_infos
                   = proposals[id].votes_infos
            /\ \A on \in ProposalIds, runtime_ok \in BOOLEAN :
                   Kept(execute_proposal(Current, on, runtime_ok)).proposals[id].votes_infos
                   = proposals[id].votes_infos

\* A closed proposal with votes on it and a member with voting power who has
\* not voted since its start, whose vote would count had the window been open.
C15_Witness ==
    \E id \in Stored, a \in DOMAIN members :
        /\ block_number > Votes(id).vote_end
        /\ Votes(id).yes_votes + Votes(id).no_votes > 0
        /\ members[a].voting_power > 0
        /\ members[a].last_vote < Votes(id).vote_start
        /\ vote(Current, a, id, TRUE).ret = "VotingPeriodEnded"

\* C16: a vote(proposal_id, approve) that returns Ok, by a member with voting
\* power w, adds w to yes_votes when approve is true and to no_votes when it is
\* false, capped at the Balance maximum, and leaves the other side of the tally,
\* the proposal's status, window, description and payout, every other proposal
\* and every other member as they are; it sets the caller's last_vote to the
\* current height and keeps the caller's voting_power.
C16_VoteFrame ==
    \A a \in Accounts, id \in ProposalIds, approve \in BOOLEAN :
        LET out == vote(Current, a, id, approve)
            after == Kept(out)
        IN out.ret = "Ok" =>
             LET w == members[a].voting_power
                 old == Votes(id)
                 new == Unwrap(after.proposals[id].votes_infos)
                 Capped(n) == IF n > BalanceMax THEN BalanceMax ELSE n
             IN /\ new.yes_votes = IF approve THEN Capped(old.yes_votes + w)
                                   ELSE old.yes_votes
                /\ new.no_votes = IF approve THEN old.no_votes
                                  ELSE Capped(old.no_votes + w)
                /\ new.vote_start = old.vote_start
                /\ new.vote_end = old.vote_end
                /\ after.proposals[id].status = proposals[id].status
                /\ after.proposals[id].description = proposals[id].description
                /\ after.proposals[id].proposal_id = proposals[id].proposal_id
                /\ after.proposals[id].transaction_infos
                   = proposals[id].transaction_infos
                /\ DOMAIN after.proposals = Stored
                /\ \A other \in Stored \ {id} :
                       after.proposals[other] = proposals[other]
                /\ DOMAIN after.members = DOMAIN members
                /\ \A m \in DOMAIN members \ {a} :
                       after.members[m] = members[m]
                /\ after.members[a] =
                       [voting_power |-> w, last_vote |-> block_number]
                /\ after.balance = balance
                /\ after.proposals_created = proposals_created

\* Two proposals are stored, one side of a tally is already counted, and a
\* member whose voting power takes that side past the Balance maximum can vote.
C16_Witness ==
    \E a \in DOMAIN members, id \in Stored :
        /\ Cardinality(Stored) = 2
        /\ Cardinality(DOMAIN members) = 2
        /\ members[a].voting_power > 1
        /\ Votes(id).yes_votes > 0
        /\ Votes(id).yes_votes + members[a].voting_power > BalanceMax
        /\ vote(Current, a, id, TRUE).ret = "Ok"

C18_FirstVoteAccepted ==
    \A a \in DOMAIN members \ DOMAIN last_votes, id \in Stored, approve \in BOOLEAN :
        block_number <= Votes(id).vote_end =>
            LET out == vote(Current, a, id, approve) IN
            /\ out.ret # "AlreadyVoted"
            /\ out.ret = "Ok"

\* C19: on a stored proposal a vote returns Ok only at heights up to vote_end,
\* and at vote_end itself a member who has not voted since the start is
\* accepted; execute_proposal returns Ok only at heights past vote_end, and at
\* vote_end itself it returns VotingPeriodNotEnded; no vote returns Ok on a
\* proposal that was executed.
C19_VoteThenExecute ==
    \A id \in Stored :
        /\ \A a \in Accounts, approve \in BOOLEAN :
               LET out == vote(Current, a, id, approve) IN
               /\ out.ret = "Ok" => block_number <= Votes(id).vote_end
               /\ (/\ block_number = Votes(id).vote_end
                   /\ a \in DOMAIN members
                   /\ members[a].last_vote < Votes(id).vote_start) => out.ret = "Ok"
               /\ (proposals[id].status = "Executed" \/ executions[id] > 0) =>
                      /\ out.ret = "VotingPeriodEnded"
                      /\ Kept(out).proposals = proposals
        /\ \A runtime_ok \in BOOLEAN :
               LET out == execute_proposal(Current, id, runtime_ok) IN
               /\ out.ret = "Ok" => block_number > Votes(id).vote_end
               /\ block_number = Votes(id).vote_end =>
                      out.ret = "VotingPeriodNotEnded"
               /\ ~(out.ret = "Ok" /\ \E a \in Accounts, approve \in BOOLEAN :
                                          vote(Current, a, id, approve).ret = "Ok")

\* The block height is the vote_end of a proposal that has yes > no and that
\* the treasury can pay, a member can still vote on it, and another proposal
\* was executed.
C19_Witness ==
    \E id \in Stored, other \in Stored, a \in DOMAIN members :
        /\ block_number = Votes(id).vote_end
        /\ Votes(id).vote_start < Votes(id).vote_end
        /\ Votes(id).yes_votes > Votes(id).no_votes
        /\ balance[Contract] > Payout(id).amount
        /\ vote(Current, a, id, FALSE).ret = "Ok"
        /\ execute_proposal(Current, id, TRUE).ret = "VotingPeriodNotEnded"
        /\ executions[other] = 1

\* C20: a join that returns Ok keeps the last_vote of a caller who is a member
\* already and stores last_vote 0 for a new member, so a member who voted on a
\* stored proposal still cannot vote on it after joining again; join changes no
\* proposal and no other member.
C20_JoinKeepsLastVote ==
    \A a \in Accounts : \A amount \in JoinAmounts(a), permitted \in BOOLEAN :
        LET out == join(Current, a, amount, permitted)
            after == Kept(out)
        IN /\ after.proposals = proposals
           /\ after.proposals_created = proposals_created
           /\ after.last_votes = last_votes
           /\ \A m \in DOMAIN members \ {a} : after.members[m] = members[m]
           /\ DOMAIN after.members \subseteq DOMAIN members \cup {a}
           /\ out.ret = "Ok" =>
                  /\ after.members[a].last_vote =
                         IF a \in DOMAIN members THEN members[a].last_vote ELSE 0
                  /\ \A id \in Stored, approve \in BOOLEAN :
                         <<a, id>> \in ballots =>
                             vote(after, a, id, approve).ret
                                 \in {"AlreadyVoted", "VotingPeriodEnded"}

\* A member voted after height 0 on a proposal whose window is open and has the
\* tokens to join again.
C20_Witness ==
    \E a \in DOMAIN members, id \in Stored :
        /\ <<a, id>> \in ballots
        /\ members[a].last_vote > 0
        /\ block_number <= Votes(id).vote_end
        /\ joined[a] > 0
        /\ balance[a] > 0
        /\ join(Current, a, balance[a], TRUE).ret = "Ok"

\* C21: when the transfer of the stake from the caller to the contract fails,
\* for lack of balance or because the ledger refuses it, join returns the
\* ledger's error, leaves the members and the balances as they are and emits no
\* event.
C21_FailedStakeTransfer ==
    \A a \in Accounts : \A amount \in JoinAmounts(a), permitted \in BOOLEAN :
        ~(permitted /\ LedgerCanTransfer(balance, a, Contract, amount)) =>
            LET out == join(Current, a, amount, permitted) IN
            /\ out.ret = "Psp22"
            /\ Kept(out).members = members
            /\ Kept(out).balance = balance
            /\ Kept(out).proposals = proposals
            /\ Kept(out).events = << >>

\* An account has staked all its tokens and asks to stake the same amount
\* again, which the ledger refuses for lack of balance; another account, not a
\* member, is refused by the ledger for its own reasons.
C21_Witness ==
    \E a \in DOMAIN members, b \in Accounts \ DOMAIN members :
        /\ InitialBalance[a] > 0
        /\ balance[a] < InitialBalance[a]
        /\ join(Current, a, InitialBalance[a], TRUE).ret = "Psp22"
        /\ balance[b] = InitialBalance[b]
        /\ join(Current, b, InitialBalance[b], FALSE).ret = "Psp22"

\* C22: join needs amount > 0: a join with amount 0 creates no Member record,
\* every stored Member has voting_power > 0, and every vote that returns Ok is
\* cast by an account with voting_power > 0.
C22_PositiveStake ==
    /\ \A m \in DOMAIN members : members[m].voting_power > 0
    /\ \A a \in Accounts \ DOMAIN members, permitted \in BOOLEAN :
           LET out == join(Current, a, 0, permitted) IN
           /\ out.ret # "Ok"
           /\ a \notin DOMAIN Kept(out).members
    /\ \A a \in Accounts, id \in ProposalIds, approve \in BOOLEAN :
           vote(Current, a, id, approve).ret = "Ok" => members[a].voting_power > 0

\* C23: an execute_proposal that returns an error (ProposalNotFound,
\* VotingPeriodNotEnded, ProposalExecuted, ProposalRejected,
\* NotEnoughFundsAvailable) leaves the proposals, the members and every balance
\* as they are and emits no event; one that returns Ok changes only the status
\* of the executed proposal, to Executed, and moves at most the payout amount
\* from the contract to the beneficiary.
C23_ExecuteFrame ==
    \A id \in ProposalIds, runtime_ok \in BOOLEAN :
        LET out == execute_proposal(Current, id, runtime_ok)
            after == Kept(out)
        IN /\ after.members = members
           /\ after.last_votes = last_votes
           /\ after.proposals_created = proposals_created
           /\ out.ret # "Ok" =>
                  /\ out.ret \in {"ProposalNotFound", "VotingPeriodNotEnded",
                                  "ProposalExecuted", "ProposalRejected",
                                  "NotEnoughFundsAvailable"}
                  /\ after.proposals = proposals
                  /\ after.balance = balance
                  /\ after.events = << >>
           /\ out.ret = "Ok" =>
                  LET to == Payout(id).beneficiary
                      amount == Payout(id).amount
                  IN /\ after.proposals =
                            [proposals EXCEPT ![id].status = "Executed"]
                     /\ \/ after.balance = balance
                        \/ after.balance =
                               [balance EXCEPT ![Contract] = @ - amount,
                                               ![to] = @ + amount]

\* One proposal was executed, a second one can be executed now and pays out,
\* and a call on the first one fails.
C23_Witness ==
    \E id \in Stored, other \in Stored :
        /\ executions[other] = 1
        /\ Cardinality(DOMAIN members) = 2
        /\ execute_proposal(Current, other, TRUE).ret = "ProposalExecuted"
        /\ execute_proposal(Current, id, TRUE).ret = "Ok"
        /\ execute_proposal(Current, id, TRUE).s.balance # balance

\* The window, id, description and payout of a proposal record
Terms(proposal) ==
    [vote_start |-> Unwrap(proposal.votes_infos).vote_start,
     vote_end |-> Unwrap(proposal.votes_infos).vote_end,
     proposal_id |-> proposal.proposal_id,
     description |-> proposal.description,
     transaction_infos |-> proposal.transaction_infos]

\* The stored proposals of `after` have the terms they have now.
TermsKept(after) ==
    \A id \in Stored :
        /\ id \in DOMAIN after.proposals
        /\ Terms(after.proposals[id]) = Terms(proposals[id])

\* C24: voting_period and token_id are those of the instantiation; no vote,
\* execute_proposal, join or create_proposal changes the window, id,
\* description or payout of a proposal that is stored; and every stored
\* proposal has vote_end = vote_start + voting_period, capped at the
\* BlockNumber maximum.
C24_TermsNeverChange ==
    /\ voting_period = VotingPeriod
    /\ token_id = TOKEN
    /\ \A id \in Stored :
           /\ proposals[id].proposal_id = id
           /\ Votes(id).vote_end =
                  IF Votes(id).vote_start + voting_period > BlockNumberMax
                  THEN BlockNumberMax
                  ELSE Votes(id).vote_start + voting_period
    /\ \A a \in Accounts, on \in ProposalIds, approve \in BOOLEAN :
           TermsKept(Kept(vote(Current, a, on, approve)))
    /\ \A on \in ProposalIds, runtime_ok \in BOOLEAN :
           TermsKept(Kept(execute_proposal(Current, on, runtime_ok)))
    /\ \A a \in Accounts : \A amount \in JoinAmounts(a), permitted \in BOOLEAN :
           TermsKept(Kept(join(Current, a, amount, permitted)))
    /\ \A a \in Accounts, r \in ProposalRequests :
           TermsKept(Kept(create_proposal(Current, a, r.beneficiary, r.amount,
                                          r.description)))

\* The steps of ProposalStatus a stored proposal may take
Lifecycle ==
    {<<"Submitted", "Approved">>, <<"Submitted", "Rejected">>,
     <<"Submitted", "Executed">>, <<"Approved", "Executed">>}

\* The status of stored proposal id in `after` is its status now or one
\* Lifecycle step away from it.
StatusFollows(after, id) ==
    /\ id \in DOMAIN after.proposals
    /\ \/ after.proposals[id].status = proposals[id].status
       \/ <<proposals[id].status, after.proposals[id].status>> \in Lifecycle

\* C25: the stored status of a proposal moves only from Submitted to Approved,
\* Rejected or Executed and from Approved to Executed, under every vote,
\* execute_proposal and join, and is left alone by the creation of a proposal
\* under another id; an executed proposal is stored as Executed, and a proposal
\* whose window closed with yes <= no is not Executed and does not become so.
C25_Lifecycle ==
    \A id \in Stored :
        /\ proposals[id].status \in {"Submitted", "Approved", "Rejected", "Executed"}
        /\ executions[id] > 0 => proposals[id].status = "Executed"
        /\ (block_number > Votes(id).vote_end
              /\ Votes(id).yes_votes <= Votes(id).no_votes) =>
               proposals[id].status \in {"Submitted", "Rejected"}
        /\ \A a \in Accounts, on \in ProposalIds, approve \in BOOLEAN :
               StatusFollows(Kept(vote(Current, a, on, approve)), id)
        /\ \A a \in Accounts : \A amount \in JoinAmounts(a), permitted \in BOOLEAN :
               StatusFollows(Kept(join(Current, a, amount, permitted)), id)
        /\ \A on \in ProposalIds, runtime_ok \in BOOLEAN :
               LET after == Kept(execute_proposal(Current, on, runtime_ok)) IN
               /\ StatusFollows(after, id)
               /\ (block_number > Votes(id).vote_end
                     /\ Votes(id).yes_votes <= Votes(id).no_votes) =>
                      after.proposals[id].status # "Executed"
        /\ \A a \in Accounts, r \in ProposalRequests :
               LET out == create_proposal(Current, a, r.beneficiary, r.amount,
                                          r.description)
               IN (out.ret # "Ok" \/ out.s.proposals_created # id) =>
                      /\ id \in DOMAIN Kept(out).proposals
                      /\ Kept(out).proposals[id].status = proposals[id].status

\* One proposal is stored as Executed; another one, still Submitted, has closed
\* with yes <= no while the treasury could pay it.
C25_Witness ==
    \E id \in Stored, other \in Stored :
        /\ proposals[id].status = "Executed"
        /\ executions[id] = 1
        /\ proposals[other].status = "Submitted"
        /\ block_number > Votes(other).vote_end
        /\ Votes(other).yes_votes <= Votes(other).no_votes
        /\ balance[Contract] > Payout(other).amount
        /\ execute_proposal(Current, id, TRUE).ret = "ProposalExecuted"

\* The accounts that voted on the proposal stored at id
Voters(id) == {a \in Accounts : <<a, id>> \in ballots}

RECURSIVE SumOver(_, _)
SumOver(f, S) ==
    IF S = {} THEN 0
    ELSE LET x == CHOOSE y \in S : TRUE IN f[x] + SumOver(f, S \ {x})

\* The voting power cast on the proposal stored at id: the sum, over the
\* accounts that voted on it, of their voting power when they voted
CastOn(id) == SumOver([a \in Accounts |-> weights[<<a, id>>]], Voters(id))

\* The sum of the voting powers of all members as stored now
TotalVotingPower ==
    SumOver([a \in DOMAIN members |-> members[a].voting_power], DOMAIN members)

\* C26: for every stored proposal yes_votes + no_votes is the sum, over the
\* members who voted on it, of their voting power when they voted, as long as
\* that sum is within the Balance range, and never more than that sum; it is
\* never more than the sum of the voting powers the members have now; and it is
\* 0 for a proposal nobody voted on.
C26_TallyConservation ==
    \A id \in Stored :
        LET tally == Votes(id).yes_votes + Votes(id).no_votes IN
        /\ CastOn(id) <= BalanceMax => tally = CastOn(id)
        /\ tally <= CastOn(id)
        /\ tally <= TotalVotingPower
        /\ Voters(id) = {} => (Votes(id).yes_votes = 0 /\ Votes(id).no_votes = 0)
        /\ \A a \in Accounts \ Voters(id) : weights[<<a, id>>] = 0
        /\ \A a \in Voters(id) :
               /\ a \in DOMAIN members
               /\ weights[<<a, id>>] <= members[a].voting_power

\* Two members voted on a proposal, on opposite sides, and one of them has
\* staked more since.
C26_Witness ==
    \E id \in Stored, a \in Accounts :
        /\ Voters(id) = Accounts
        /\ Votes(id).yes_votes > 0
        /\ Votes(id).no_votes > 0
        /\ CastOn(id) = BalanceMax
        /\ members[a].voting_power > weights[<<a, id>>]
====
